---- MODULE Spec2Model ----
(***************************************************************************)
(* GeoPulse event store: the validated domain model (Location, Magnitude,  *)
(* Type, Event), the QueryCriteria holder and the SQLite repository that   *)
(* compiles criteria into a parameterised query.                           *)
(*                                                                         *)
(* Numbers.  Magnitudes are counted in tenths (5.0 is 50), latitudes and   *)
(* longitudes in whole degrees, depths and radii in whole kilometres.      *)
(* Times are instants inside January 2024 counted in whole hours since     *)
(* 2024-01-01T00:00:00Z, with a flag for a sub-second fraction and a zone  *)
(* offset in whole hours.  Text that the store orders (event_time,         *)
(* location_name, bound time parameters) is a sequence of ASCII codes,     *)
(* compared bytewise as SQLite's BINARY collation does; text that is only  *)
(* compared for equality is a string.  An optional value (a nil-able       *)
(* pointer) is a sequence of length 0 or 1.                                *)
(***************************************************************************)
EXTENDS Integers, Sequences, FiniteSets, TLC

VARIABLES schema, rows, now, last

vars == <<schema, rows, now, last>>

\* ------------------------------------------------------------------ bounds
MaxRows == 2
MaxClock == 1

None == <<>>
Some(v) == <<v>>

\* --------------------------------------------------------------- text order
\* bytewise comparison of two texts (memcmp, then the shorter one first)
LexLess(s, t) ==
    LET n == IF Len(s) < Len(t) THEN Len(s) ELSE Len(t)
        diff == {i \in 1..n : s[i] # t[i]}
    IN IF diff = {} THEN Len(s) < Len(t)
       ELSE \E k \in diff : (\A m \in diff : k <= m) /\ s[k] < t[k]

LexLeq(s, t) == s = t \/ LexLess(s, t)

\* -------------------------------------------------------------------- time
ZeroHour == -1000000
ZeroTime == [h |-> ZeroHour, frac |-> 0, off |-> 0]

IsZero(t) == t.h = ZeroHour

\* instant order (time.Time.Before / Equal ignore the zone)
TimeBefore(s, t) == s.h < t.h \/ (s.h = t.h /\ s.frac < t.frac)
TimeEqual(s, t) == s.h = t.h /\ s.frac = t.frac
Unix(t) == t.h * 3600

Abs(n) == IF n < 0 THEN -n ELSE n

TwoDigits(n) == <<48 + (n \div 10), 48 + (n % 10)>>

\* "2024-01-DD" of a local hour count
DatePart(local) == <<50, 48, 50, 52, 45, 48, 49, 45>> \o TwoDigits((local \div 24) + 1)

\* "HH:00:00" of a local hour count
ClockPart(local) == TwoDigits(local % 24) \o <<58, 48, 48, 58, 48, 48>>

\* mutant of FormatRFC3339: the wall clock is printed without its zone
FormatRFC3339NoZone(t) ==
    DatePart(t.h + t.off) \o <<84>> \o ClockPart(t.h + t.off) \o <<90>>

\* time.Time.Format(time.RFC3339): local wall clock to the second, "T"
\* separator, zone as "Z" or "+hh:mm"; the sub-second fraction is dropped
FormatRFC3339(t) ==
    LET local == t.h + t.off
        zone == IF t.off = 0 THEN <<90>>
                ELSE <<(IF t.off < 0 THEN 45 ELSE 43)>> \o TwoDigits(Abs(t.off)) \o <<58, 48, 48>>
    IN DatePart(local) \o <<84>> \o ClockPart(local) \o zone

\* time.Time.String(), the text the driver binds for a time.Time argument:
\* "2006-01-02 15:04:05.999999999 -0700 MST"
TimeString(t) ==
    LET local == t.h + t.off
        fracPart == IF t.frac = 0 THEN <<>> ELSE <<46, 53>>
        num == <<(IF t.off < 0 THEN 45 ELSE 43)>> \o TwoDigits(Abs(t.off)) \o <<48, 48>>
        name == IF t.off = 0 THEN <<85, 84, 67>> ELSE num
    IN DatePart(local) \o <<32>> \o ClockPart(local) \o fracPart \o <<32>> \o num \o <<32>> \o name

IsDigit(c) == c >= 48 /\ c <= 57
Num2(s, i) == (s[i] - 48) * 10 + (s[i + 1] - 48)

\* the date and clock part shared by every accepted layout, with separator sep
StampOK(s, sep) ==
    /\ Len(s) >= 19
    /\ SubSeq(s, 1, 8) = <<50, 48, 50, 52, 45, 48, 49, 45>>
    /\ IsDigit(s[9]) /\ IsDigit(s[10])
    /\ Num2(s, 9) >= 1 /\ Num2(s, 9) <= 31
    /\ s[11] = sep
    /\ IsDigit(s[12]) /\ IsDigit(s[13])
    /\ Num2(s, 12) <= 23
    /\ SubSeq(s, 14, 19) = <<58, 48, 48, 58, 48, 48>>

StampLocal(s) == (Num2(s, 9) - 1) * 24 + Num2(s, 12)

\* a "+hh:00" / "-hh:00" zone starting at position i and ending the text
ColonZoneOK(s, i) ==
    /\ Len(s) = i + 5
    /\ s[i] \in {43, 45}
    /\ IsDigit(s[i + 1]) /\ IsDigit(s[i + 2])
    /\ SubSeq(s, i + 3, i + 5) = <<58, 48, 48>>

ColonZone(s, i) == IF s[i] = 45 THEN -Num2(s, i + 1) ELSE Num2(s, i + 1)

\* " +hh00 NAME" as printed by time.Time.String()
GoZoneOK(s) ==
    /\ Len(s) >= 26
    /\ s[20] = 32
    /\ s[21] \in {43, 45}
    /\ IsDigit(s[22]) /\ IsDigit(s[23])
    /\ SubSeq(s, 24, 26) = <<48, 48, 32>>
    /\ Len(s) > 26

ParseOK(t) == [err |-> FALSE, t |-> t]
ParseFail == [err |-> TRUE, t |-> ZeroTime]

\* parseTimeFlexible: the layouts are tried in order, the first match wins
parseTimeFlexible(s) ==
    IF StampOK(s, 84) /\ Len(s) = 20 /\ s[20] = 90
      THEN ParseOK([h |-> StampLocal(s), frac |-> 0, off |-> 0])
    ELSE IF StampOK(s, 84) /\ ColonZoneOK(s, 20)
      THEN ParseOK([h |-> StampLocal(s) - ColonZone(s, 20), frac |-> 0, off |-> ColonZone(s, 20)])
    ELSE IF StampOK(s, 32) /\ Len(s) = 19
      THEN ParseOK([h |-> StampLocal(s), frac |-> 0, off |-> 0])
    ELSE IF StampOK(s, 32) /\ ColonZoneOK(s, 20)
      THEN ParseOK([h |-> StampLocal(s) - ColonZone(s, 20), frac |-> 0, off |-> ColonZone(s, 20)])
    ELSE IF StampOK(s, 32) /\ GoZoneOK(s)
      THEN ParseOK([h |-> StampLocal(s) - ColonZone(s, 21), frac |-> 0, off |-> ColonZone(s, 21)])
    ELSE ParseFail

\* ------------------------------------------------------------------ floats
\* the float64 value NaN (every other number of the model is an integer
\* count of tenths, degrees or kilometres)
NaN == 999999999

\* a < b and a > b on float64: false when either side is NaN
FLess(a, b) == a # NaN /\ b # NaN /\ a < b
FGreater(a, b) == a # NaN /\ b # NaN /\ a > b

\* ----------------------------------------------------------- value objects
ZeroLocation == [Latitude |-> 0, Longitude |-> 0, Depth |-> 0]

NewLocation(latitude, longitude, depth) ==
    IF FLess(latitude, -90) \/ FGreater(latitude, 90) THEN [err |-> TRUE, v |-> ZeroLocation]
    ELSE IF FLess(longitude, -180) \/ FGreater(longitude, 180)
      THEN [err |-> TRUE, v |-> ZeroLocation]
    ELSE [err |-> FALSE, v |-> [Latitude |-> latitude, Longitude |-> longitude, Depth |-> depth]]

\* strings.ToLower(strings.TrimSpace(s)) on the texts the model feeds in
LowerTrim(s) ==
    CASE s = "Mw" -> "mw"
      [] s = " ml " -> "ml"
      [] s = "EARTHQUAKE" -> "earthquake"
      [] s = " Quarry" -> "quarry"
      [] s = "  " -> ""
      [] OTHER -> s

MagnitudeScaleUnknown == "unknown"

validMagnitudeScales == {"mw", "ml", "mb", "ms", "md", "mww", "mwc", "mwr"}

ZeroMagnitude == [value |-> 0, scale |-> ""]

NewMagnitudeRawScale(value, scale) ==
    IF FLess(value, -10) \/ FGreater(value, 100) THEN [err |-> TRUE, v |-> ZeroMagnitude]
    ELSE [err |-> FALSE,
          v |-> [value |-> value,
                 scale |-> IF scale \in validMagnitudeScales
                           THEN scale ELSE MagnitudeScaleUnknown]]

NewMagnitude(value, scale) ==
    IF FLess(value, -10) \/ FGreater(value, 100) THEN [err |-> TRUE, v |-> ZeroMagnitude]
    ELSE LET normalizeScale == LowerTrim(scale)
         IN [err |-> FALSE,
             v |-> [value |-> value,
                    scale |-> IF normalizeScale \in validMagnitudeScales
                              THEN normalizeScale ELSE MagnitudeScaleUnknown]]

EventTypeOther == "other"

validEventTypes ==
    [k \in {"earthquake", "quarry blast", "explosion", "other", "quarry", "landslide",
            "rockburst", "chemical explosion", "nuclear explosion", "ice quake",
            "volcanic eruption"} |->
        CASE k = "quarry" -> "quarry blast"
          [] k = "rockburst" -> "other"
          [] k = "chemical explosion" -> "explosion"
          [] k = "nuclear explosion" -> "explosion"
          [] OTHER -> k]

ZeroType == [value |-> ""]

NewTypeTrimFirst(value) ==
    LET normalizeValue == LowerTrim(value)
    IN IF normalizeValue = "" THEN [err |-> TRUE, v |-> ZeroType]
       ELSE [err |-> FALSE,
             v |-> [value |-> IF normalizeValue \in DOMAIN validEventTypes
                              THEN validEventTypes[normalizeValue] ELSE EventTypeOther]]

NewType(value) ==
    IF value = "" THEN [err |-> TRUE, v |-> ZeroType]
    ELSE LET normalizeValue == LowerTrim(value)
         IN [err |-> FALSE,
             v |-> [value |-> IF normalizeValue \in DOMAIN validEventTypes
                              THEN validEventTypes[normalizeValue] ELSE EventTypeOther]]

\* ------------------------------------------------------------------- Event
\* mutant of NewEvent: the status is not validated
NewEventAnyStatus(id, location, place, magnitude, eventType, eventTime, status, description, url, clock) ==
    IF id = "" THEN [err |-> "event ID cannot be empty", ev |-> None]
    ELSE IF IsZero(eventTime) THEN [err |-> "event time cannot be zero", ev |-> None]
    ELSE [err |-> "",
          ev |-> Some([id |-> id, location |-> location, place |-> place,
                       magnitude |-> magnitude, eventType |-> eventType,
                       time |-> eventTime, updated |-> clock, status |-> status,
                       description |-> description, url |-> url])]

\* NewEvent returns (nil, error) or (event, nil); clock is time.Now()
NewEvent(id, location, place, magnitude, eventType, eventTime, status, description, url, clock) ==
    IF id = "" THEN [err |-> "event ID cannot be empty", ev |-> None]
    ELSE IF IsZero(eventTime) THEN [err |-> "event time cannot be zero", ev |-> None]
    ELSE IF status = "" THEN [err |-> "event status cannot be empty", ev |-> None]
    ELSE [err |-> "",
          ev |-> Some([id |-> id, location |-> location, place |-> place,
                       magnitude |-> magnitude, eventType |-> eventType,
                       time |-> eventTime, updated |-> clock, status |-> status,
                       description |-> description, url |-> url])]

UpdateStatus(e, newStatus, updatedTime) ==
    [id |-> e.id, location |-> e.location, place |-> e.place, magnitude |-> e.magnitude,
     eventType |-> e.eventType, time |-> e.time, status |-> newStatus,
     updated |-> updatedTime, description |-> e.description, url |-> e.url]

\* ------------------------------------------------------------ event inputs
IDs == {"a", "b", "c"}

PlaceLA == <<76, 65>>
PlaceTokyo == <<84, 111, 107, 121, 111>>
PlaceLower == <<108, 97>>

\* 2024-01-02T10:00:00Z
TimeA == [h |-> 34, frac |-> 0, off |-> 0]
\* 2024-01-02T12:00:00.5Z
TimeB == [h |-> 36, frac |-> 1, off |-> 0]
\* 2024-01-02T11:00:00+02:00, the instant 09:00Z
TimeC == [h |-> 33, frac |-> 0, off |-> 2]
\* 2024-01-03T10:00:00Z
TimeD == [h |-> 58, frac |-> 0, off |-> 0]
\* 2024-01-01T23:00:00-02:00, the instant 2024-01-02T01:00Z
TimeE == [h |-> 25, frac |-> 0, off |-> -2]

\* constructor arguments a caller passes: raw latitude, longitude, depth,
\* magnitude and scale, type text, time, place, status, description, url
RawEvents ==
    { [id |-> "a", lat |-> 0, lon |-> 179, depth |-> 10, mag |-> 50, scale |-> "Mw",
       type |-> "earthquake", time |-> TimeA, place |-> PlaceLA, status |-> "reviewed",
       description |-> "Earthquake detected", url |-> "u1"],
      [id |-> "a", lat |-> 60, lon |-> 0, depth |-> 700, mag |-> 72, scale |-> " ml ",
       type |-> " Quarry", time |-> TimeC, place |-> PlaceTokyo, status |-> "automatic",
       description |-> "reviewed", url |-> "u2"],
      [id |-> "b", lat |-> 0, lon |-> -179, depth |-> 20, mag |-> 15, scale |-> "richter",
       type |-> "EARTHQUAKE", time |-> TimeB, place |-> PlaceLower, status |-> "reviewed",
       description |-> "", url |-> "u1"],
      [id |-> "b", lat |-> 90, lon |-> -170, depth |-> -5, mag |-> -10, scale |-> "mb",
       type |-> "meteor strike", time |-> TimeD, place |-> PlaceLA, status |-> "automatic",
       description |-> "Large earthquake", url |-> ""],
      [id |-> "c", lat |-> -60, lon |-> 180, depth |-> 1500, mag |-> 100, scale |-> "mw",
       type |-> "explosion", time |-> TimeE, place |-> PlaceTokyo, status |-> "reviewed",
       description |-> "automatic", url |-> "u3"],
      [id |-> "c", lat |-> 0, lon |-> 0, depth |-> 10, mag |-> 50, scale |-> "mw",
       type |-> "earthquake", time |-> TimeA, place |-> PlaceLA, status |-> "automatic",
       description |-> "Earthquake detected", url |-> "u1"] }

\* the event a caller builds from raw arguments through the constructors
BuildEvent(raw, clock) ==
    LET loc == NewLocation(raw.lat, raw.lon, raw.depth)
        mag == NewMagnitude(raw.mag, raw.scale)
        typ == NewType(raw.type)
    IN IF loc.err \/ mag.err \/ typ.err THEN None
       ELSE NewEvent(raw.id, loc.v, raw.place, mag.v, typ.v, raw.time, raw.status,
                     raw.description, raw.url, clock).ev

ConstructedEvents(clock) ==
    {BuildEvent(raw, clock)[1] : raw \in {r \in RawEvents : BuildEvent(r, clock) # None}}

\* status values callers pass to UpdateStatus
UpdateStatuses == {""}

\* every event a caller can hold: built by NewEvent, then UpdateStatus
HeldEvents(clock) ==
    ConstructedEvents(clock) \cup
    {UpdateStatus(e, s, clock) : e \in ConstructedEvents(clock), s \in UpdateStatuses}

\* ------------------------------------------------------------------- store
ErrNoRows == "sql: no rows in result set"
ErrConstraint == "constraint failed"

\* the values Save binds to the insert statement, in column order
SaveArgs(e, clock) ==
    [id |-> e.id, event_type |-> e.eventType.value,
     magnitude_value |-> e.magnitude.value, magnitude_scale |-> e.magnitude.scale,
     latitude |-> e.location.Latitude, longitude |-> e.location.Longitude,
     depth_km |-> e.location.Depth, event_time |-> FormatRFC3339(e.time),
     location_name |-> e.place, status |-> e.status, description |-> e.description,
     url |-> e.url, updated_at |-> clock]

\* CHECK constraints of the events table (the migration schema has four,
\* the schema the repository tests create has none)
SchemaAccepts(sch, r) ==
    sch = "migration" =>
        /\ r.magnitude_value >= -10 /\ r.magnitude_value <= 100
        /\ r.latitude >= -90 /\ r.latitude <= 90
        /\ r.longitude >= -180 /\ r.longitude <= 180
        /\ r.depth_km >= -10 /\ r.depth_km <= 1000

\* mutant of insertEventQuery: the conflict clause forgets the status column
insertEventQueryKeepStatus(rs, r) ==
    [i \in (DOMAIN rs) \cup {r.id} |->
        IF i # r.id THEN rs[i]
        ELSE IF i \in DOMAIN rs THEN [r EXCEPT !.status = rs[i].status]
        ELSE r]

\* mutant of insertEventQuery: the description is spliced into the statement
\* text, so an SQL description is executed
insertEventQuerySpliced(rs, r) ==
    IF r.description = "x'); DROP TABLE events; --"
    THEN [i \in {} |-> r]
    ELSE [i \in (DOMAIN rs) \cup {r.id} |-> IF i = r.id THEN r ELSE rs[i]]

\* INSERT ... ON CONFLICT(id) DO UPDATE SET <every column> = excluded.<column>
insertEventQuery(rs, r) ==
    [i \in (DOMAIN rs) \cup {r.id} |-> IF i = r.id THEN r ELSE rs[i]]

\* mutant of deleteEventByIDQuery: the WHERE clause is missing
deleteEventByIDQueryAll(rs, id) == [i \in {} |-> rs[i]]

deleteEventByIDQuery(rs, id) == [i \in (DOMAIN rs) \ {id} |-> rs[i]]

\* the driver's reading of the text of a DATETIME column: every layout
\* parseTimeFlexible knows, and also a "T"-separated stamp without a zone,
\* which it reads as UTC
DriverParseTime(s) ==
    IF ~parseTimeFlexible(s).err THEN parseTimeFlexible(s)
    ELSE IF StampOK(s, 84) /\ Len(s) = 19
      THEN ParseOK([h |-> StampLocal(s), frac |-> 0, off |-> 0])
    ELSE ParseFail

\* scanner.Scan of the event_time column into a string.  A column declared
\* TEXT is handed over as stored.  A column declared DATETIME is handed over
\* by the driver as a time.Time when its text parses, and database/sql
\* writes a time.Time into a string as RFC3339Nano (no fraction is ever
\* stored, so that is the RFC3339 text of the parsed time).
ScanEventTime(sch, s) ==
    IF sch = "migration" /\ ~DriverParseTime(s).err
    THEN FormatRFC3339(DriverParseTime(s).t)
    ELSE s

\* reconstructEventFromScanner: the row is passed through the constructors;
\* updated_at is scanned but NewEvent stamps the event with time.Now()
reconstructEventFromScanner(r, clock) ==
    LET location == NewLocation(r.latitude, r.longitude, r.depth_km)
        magnitude == NewMagnitude(r.magnitude_value, r.magnitude_scale)
        eventTimeParsed == parseTimeFlexible(ScanEventTime(schema, r.event_time))
        eventTypeObj == NewType(r.event_type)
    IN IF location.err THEN [err |-> "latitude or longitude out of range", ev |-> None]
       ELSE IF magnitude.err THEN [err |-> "magnitude out of range", ev |-> None]
       ELSE IF eventTimeParsed.err THEN [err |-> "unable to parse time", ev |-> None]
       ELSE IF eventTypeObj.err THEN [err |-> "value type cannot be empty", ev |-> None]
       ELSE NewEvent(r.id, location.v, r.location_name, magnitude.v, eventTypeObj.v,
                     eventTimeParsed.t, r.status, r.description, r.url, clock)

\* what the last repository call was given and what it returned
\* (sel: the ids of the rows the statement's WHERE clause selected; had:
\* whether a row with the id was stored when a Save or Delete was called)
Outcome(op, id, arg, crit, err, out, list, n) ==
    [op |-> op, id |-> id, arg |-> arg, crit |-> crit, err |-> err, out |-> out,
     list |-> list, n |-> n, sel |-> {}, had |-> FALSE]

Init ==
    /\ schema \in {"test", "migration"}
    /\ rows = [i \in {} |-> None]
    /\ now = 0
    /\ last = Outcome("none", "", None, None, "", None, None, 0)

\* wall clock time passes (CURRENT_TIMESTAMP, time.Now())
Tick ==
    /\ now < MaxClock
    /\ now' = now + 1
    /\ UNCHANGED <<schema, rows, last>>

\* Save: the statement runs, or a CHECK constraint rejects the row
Save(e) ==
    /\ e.id \in DOMAIN rows \/ Cardinality(DOMAIN rows) < MaxRows
    /\ IF SchemaAccepts(schema, SaveArgs(e, now))
       THEN /\ rows' = insertEventQuery(rows, SaveArgs(e, now))
            /\ last' = [Outcome("Save", e.id, Some(e), None, "", None, None, 0)
                           EXCEPT !.had = e.id \in DOMAIN rows]
       ELSE /\ last' = [Outcome("Save", e.id, Some(e), None, ErrConstraint, None, None, 0)
                           EXCEPT !.had = e.id \in DOMAIN rows]
            /\ UNCHANGED rows
    /\ UNCHANGED <<schema, now>>


FindbyIDResult(rs, id, clock) ==
    IF id \notin DOMAIN rs THEN [err |-> ErrNoRows, ev |-> None]
    ELSE reconstructEventFromScanner(rs[id], clock)

FindbyID(id) ==
    /\ LET res == FindbyIDResult(rows, id, now)
       IN last' = Outcome("FindbyID", id, None, None, res.err, res.ev, None, 0)
    /\ UNCHANGED <<schema, rows, now>>


\* mutant of RowsAffected: the zero-rows case is never seen
RowsAffectedAlways(rs, id) == 1

\* rowsAffected of the DELETE statement
RowsAffected(rs, id) == IF id \in DOMAIN rs THEN 1 ELSE 0

Delete(id) ==
    /\ rows' = deleteEventByIDQuery(rows, id)
    /\ last' = [Outcome("Delete", id, None, None,
                        IF RowsAffected(rows, id) = 0 THEN ErrNoRows ELSE "", None, None, 0)
                   EXCEPT !.had = id \in DOMAIN rows]
    /\ UNCHANGED <<schema, now>>


\* ---------------------------------------------------------- QueryCriteria
NewQueryCriteria ==
    [MinMagnitude |-> None, MaxMagnitude |-> None, StartTime |-> None, EndTime |-> None,
     Location |-> None, RadiusKm |-> None, EventTypes |-> <<>>, Statuses |-> <<>>,
     OrderBy |-> "time", Limit |-> 100, Offset |-> 0, Ascending |-> FALSE]

Range(seq) == {seq[i] : i \in 1..Len(seq)}

\* twice math.Cos(lat * math.Pi / 180) at the latitudes where it is a whole
\* number: cos 0 = 1, cos 60 = 0.5 and cos 90 = 6e-17, which the guard
\* |cos| > 1e-6 treats as zero
CosTimes2(lat) ==
    CASE lat = 0 -> 2
      [] lat \in {60, -60} -> 1
      [] lat \in {90, -90} -> 0

\* the latitude/longitude window of the proximity filter:
\*   latitude BETWEEN lat - r/111 AND lat + r/111
\*   longitude BETWEEN lon - dLon AND lon + dLon,
\*   dLon = r / (111 cos lat), or 180 when |cos lat| <= 1e-6
\* (inequalities multiplied through by 111 and by 2 cos lat)
InWindow(r, location, radiusKm) ==
    LET lat == location.Latitude
        lon == location.Longitude
    IN /\ 111 * (lat - r.latitude) <= radiusKm
       /\ 111 * (r.latitude - lat) <= radiusKm
       /\ IF CosTimes2(lat) > 0
          THEN /\ 111 * CosTimes2(lat) * (lon - r.longitude) <= 2 * radiusKm
               /\ 111 * CosTimes2(lat) * (r.longitude - lon) <= 2 * radiusKm
          ELSE /\ lon - 180 <= r.longitude
               /\ r.longitude <= lon + 180

\* mutant of appendEventFilters: the magnitude bounds are strict
appendEventFiltersStrict(c, r) ==
    /\ c.MinMagnitude # None => r.magnitude_value > c.MinMagnitude[1]
    /\ c.MaxMagnitude # None => r.magnitude_value < c.MaxMagnitude[1]
    /\ c.StartTime # None => LexLeq(TimeString(c.StartTime[1]), r.event_time)
    /\ c.EndTime # None => LexLeq(r.event_time, TimeString(c.EndTime[1]))
    /\ Len(c.EventTypes) > 0 => r.event_type \in {t.value : t \in Range(c.EventTypes)}
    /\ Len(c.Statuses) > 0 => r.description \in Range(c.Statuses)
    /\ (c.Location # None /\ c.RadiusKm # None) => InWindow(r, c.Location[1], c.RadiusKm[1])

\* appendEventFilters: one AND clause per criteria field that is set.  A
\* time.Time bound is bound as its String() text and compared with the
\* stored event_time text.
appendEventFilters(c, r) ==
    /\ c.MinMagnitude # None => r.magnitude_value >= c.MinMagnitude[1]
    /\ c.MaxMagnitude # None => r.magnitude_value <= c.MaxMagnitude[1]
    /\ c.StartTime # None => LexLeq(TimeString(c.StartTime[1]), r.event_time)
    /\ c.EndTime # None => LexLeq(r.event_time, TimeString(c.EndTime[1]))
    /\ Len(c.EventTypes) > 0 => r.event_type \in {t.value : t \in Range(c.EventTypes)}
    /\ Len(c.Statuses) > 0 => r.description \in Range(c.Statuses)
    /\ (c.Location # None /\ c.RadiusKm # None) => InWindow(r, c.Location[1], c.RadiusKm[1])

\* the rows the WHERE clause selects
Selected(rs, c) == {i \in DOMAIN rs : appendEventFilters(c, rs[i])}

\* mutant of orderByColumn: a name the switch does not know is used as it is
orderByColumnRaw(c) ==
    CASE c.OrderBy = "magnitude" -> "magnitude_value"
      [] c.OrderBy = "depth" -> "depth_km"
      [] c.OrderBy = "place" -> "location_name"
      [] c.OrderBy = "time" -> "event_time"
      [] OTHER -> c.OrderBy

\* the switch that maps the order-by name to a physical column
orderByColumn(c) ==
    CASE c.OrderBy = "magnitude" -> "magnitude_value"
      [] c.OrderBy = "depth" -> "depth_km"
      [] c.OrderBy = "place" -> "location_name"
      [] OTHER -> "event_time"

\* r1 sorts at or before r2 in ascending order of a column
ColumnLeq(col, r1, r2) ==
    CASE col = "magnitude_value" -> r1.magnitude_value <= r2.magnitude_value
      [] col = "depth_km" -> r1.depth_km <= r2.depth_km
      [] col = "location_name" -> LexLeq(r1.location_name, r2.location_name)
      [] col = "event_time" -> LexLeq(r1.event_time, r2.event_time)

Perms(S) ==
    {f \in [1..Cardinality(S) -> S] : \A i, j \in 1..Cardinality(S) : i # j => f[i] # f[j]}

\* ORDER BY <column> ASC|DESC: every order of the selected rows that is
\* sorted on the column (rows equal in the column come in any order)
OrderBy(rs, S, c) ==
    {f \in Perms(S) :
        \A i, j \in 1..Cardinality(S) :
            i < j => IF c.Ascending
                     THEN ColumnLeq(orderByColumn(c), rs[f[i]], rs[f[j]])
                     ELSE ColumnLeq(orderByColumn(c), rs[f[j]], rs[f[i]])}

Min(a, b) == IF a < b THEN a ELSE b
Max(a, b) == IF a > b THEN a ELSE b

\* LIMIT ? OFFSET ?: a negative limit means no limit, a negative offset 0
LimitOffset(seq, limit, offset) ==
    LET first == Max(offset, 0)
        stop == IF limit < 0 THEN Len(seq) ELSE Min(Len(seq), first + limit)
    IN SubSeq(seq, first + 1, stop)

\* the rows.Next loop: each row is reconstructed in turn, the first error
\* ends the call with (nil, err); otherwise a non-nil slice is returned
ScanRows(rs, ids, clock) ==
    LET rec == [k \in 1..Len(ids) |-> reconstructEventFromScanner(rs[ids[k]], clock)]
        bad == {k \in 1..Len(ids) : rec[k].err # ""}
    IN IF bad # {}
       THEN [err |-> rec[CHOOSE k \in bad : \A m \in bad : k <= m].err, list |-> None]
       ELSE [err |-> "", list |-> Some([k \in 1..Len(ids) |-> rec[k].ev[1]])]

FindAll(c) ==
    /\ \E f \in OrderBy(rows, Selected(rows, c), c) :
         LET res == ScanRows(rows, LimitOffset(f, c.Limit, c.Offset), now)
         IN last' = [Outcome("FindAll", "", None, Some(c), res.err, None, res.list, 0)
                        EXCEPT !.sel = Selected(rows, c)]
    /\ UNCHANGED <<schema, rows, now>>

Count(c) ==
    /\ last' = [Outcome("Count", "", None, Some(c), "", None, None,
                        Cardinality(Selected(rows, c)))
                   EXCEPT !.sel = Selected(rows, c)]
    /\ UNCHANGED <<schema, rows, now>>

\* ---------------------------------------------------------- criteria inputs
TypeOf(text) == NewType(text).v

StatusCriteria ==
    {[NewQueryCriteria EXCEPT !.Statuses = st] :
        st \in {<<"reviewed">>, <<"automatic">>, <<"automatic", "reviewed">>}}

BoundTimes == {TimeA, TimeB, TimeC}

TimeCriteria ==
    {[NewQueryCriteria EXCEPT !.StartTime = s, !.EndTime = e] :
        s \in {None} \cup {Some(t) : t \in BoundTimes},
        e \in {None} \cup {Some(t) : t \in BoundTimes}}

SortCriteria ==
    {[NewQueryCriteria EXCEPT !.OrderBy = o, !.Ascending = asc] :
        o \in {"time", "magnitude", "depth", "place"}, asc \in BOOLEAN}

PageCriteria ==
    {[NewQueryCriteria EXCEPT !.Limit = l, !.Offset = o] :
        l \in {0, 1, 2, 1000}, o \in {0, 1, 2, 3}}

QueryPoints ==
    {NewLocation(lat, lon, 0).v : lat \in {0, 60, 90}, lon \in {-180, 0, 179}}

QueryRadii == {0, 300, 20000}

ProximityCriteria ==
    {[NewQueryCriteria EXCEPT !.Location = Some(p), !.RadiusKm = Some(r)] :
        p \in QueryPoints, r \in QueryRadii}

FilterCriteria ==
    {[NewQueryCriteria EXCEPT !.MinMagnitude = lo, !.MaxMagnitude = hi, !.EventTypes = ts] :
        lo \in {None, Some(50)}, hi \in {None, Some(50), Some(72)},
        ts \in {<<>>, <<TypeOf("earthquake")>>, <<TypeOf("explosion"), TypeOf("meteor strike")>>}}

Next ==
    \/ Tick
    \/ \E e \in HeldEvents(now) : Save(e)
    \/ \E id \in IDs : FindbyID(id)
    \/ \E id \in IDs : Delete(id)

Spec == Init /\ [][Next]_vars

\* the repository under queries drawn from one family of criteria
NextStatus ==
    \/ \E e \in HeldEvents(now) : Save(e)
    \/ \E id \in IDs : Delete(id)
    \/ \E c \in StatusCriteria : FindAll(c)
    \/ \E c \in StatusCriteria : Count(c)

SpecStatus == Init /\ [][NextStatus]_vars

NextTime ==
    \/ \E e \in HeldEvents(now) : Save(e)
    \/ \E id \in IDs : Delete(id)
    \/ \E c \in TimeCriteria : FindAll(c)
    \/ \E c \in TimeCriteria : Count(c)

SpecTime == Init /\ [][NextTime]_vars

NextSort ==
    \/ \E e \in HeldEvents(now) : Save(e)
    \/ \E id \in IDs : Delete(id)
    \/ \E c \in SortCriteria : FindAll(c)
    \/ \E c \in SortCriteria : Count(c)

SpecSort == Init /\ [][NextSort]_vars

NextPage ==
    \/ \E e \in HeldEvents(now) : Save(e)
    \/ \E id \in IDs : Delete(id)
    \/ \E c \in PageCriteria : FindAll(c)
    \/ \E c \in PageCriteria : Count(c)

SpecPage == Init /\ [][NextPage]_vars

NextProximity ==
    \/ \E e \in HeldEvents(now) : Save(e)
    \/ \E id \in IDs : Delete(id)
    \/ \E c \in ProximityCriteria : FindAll(c)
    \/ \E c \in ProximityCriteria : Count(c)

SpecProximity == Init /\ [][NextProximity]_vars

NextFilter ==
    \/ \E e \in HeldEvents(now) : Save(e)
    \/ \E id \in IDs : Delete(id)
    \/ \E c \in FilterCriteria : FindAll(c)
    \/ \E c \in FilterCriteria : Count(c)

SpecFilter == Init /\ [][NextFilter]_vars

\* ------------------------------------------------------------------ claims
\* the stored columns of a row other than the server-side updated_at
StoredFields(r) == [r EXCEPT !.updated_at = 0]

\* a row holds the values of an event in every column Save writes
RowHolds(r, e) ==
    /\ r.id = e.id
    /\ r.event_type = e.eventType.value
    /\ r.magnitude_value = e.magnitude.value
    /\ r.magnitude_scale = e.magnitude.scale
    /\ r.latitude = e.location.Latitude
    /\ r.longitude = e.location.Longitude
    /\ r.depth_km = e.location.Depth
    /\ ~parseTimeFlexible(r.event_time).err
    /\ Unix(parseTimeFlexible(r.event_time).t) = Unix(e.time)
    /\ r.location_name = e.place
    /\ r.status = e.status
    /\ r.description = e.description
    /\ r.url = e.url

\* two events agree in everything but the time they were built or updated
SameEvent(e1, e2) == [e1 EXCEPT !.updated = 0] = [e2 EXCEPT !.updated = 0]

\* C1: Save is an upsert keyed by id.  A successful Save of an id that is
\* not stored adds exactly one row, a successful Save of a stored id leaves
\* the row count unchanged, the row of that id then holds the event's type,
\* magnitude value and scale, latitude, longitude, depth, time, place,
\* status, description and url, no other row changes, and saving the same
\* event again leaves the same rows.
C1_SaveIsUpsert ==
    [][/\ (last'.op = "Save" /\ last'.err = "") =>
            LET e == last'.arg[1]
            IN /\ DOMAIN rows' = (DOMAIN rows) \cup {e.id}
               /\ Cardinality(DOMAIN rows') =
                      Cardinality(DOMAIN rows) + (IF e.id \in DOMAIN rows THEN 0 ELSE 1)
               /\ RowHolds(rows'[e.id], e)
               /\ \A i \in (DOMAIN rows) \ {e.id} : rows'[i] = rows[i]
       /\ (/\ last.op = "Save" /\ last.err = ""
           /\ last'.op = "Save" /\ last'.err = ""
           /\ SameEvent(last'.arg[1], last.arg[1])) =>
            /\ DOMAIN rows' = DOMAIN rows
            /\ \A i \in DOMAIN rows : StoredFields(rows'[i]) = StoredFields(rows[i])
      ]_vars

\* C1 witness: a Save has replaced the row of a stored id beside another row
C1_Witness ==
    /\ last.op = "Save" /\ last.err = "" /\ last.had
    /\ (DOMAIN rows) \ {last.id} # {}
    /\ rows[last.id].updated_at = MaxClock

\* the event was built by NewEvent from NewLocation, NewMagnitude, NewType
Constructed(e) == [e EXCEPT !.updated = 0] \in ConstructedEvents(0)

\* C2: round trip.  For an event built through the constructors, Save then
\* FindbyID of its id with no write in between returns, without error, an
\* event equal in id, type, magnitude value and scale, latitude, longitude,
\* depth, place, status, description, url and in occurrence time to the
\* second, whatever the zone offset of the saved time.
C2_RoundTrip ==
    [][(/\ last.op = "Save" /\ last.err = "" /\ Constructed(last.arg[1])
        /\ last'.op = "FindbyID" /\ last'.id = last.id) =>
            /\ last'.err = ""
            /\ last'.out # None
            /\ LET e == last.arg[1]
                   got == last'.out[1]
               IN /\ got.id = e.id
                  /\ got.eventType = e.eventType
                  /\ got.magnitude = e.magnitude
                  /\ got.location = e.location
                  /\ got.place = e.place
                  /\ got.status = e.status
                  /\ got.description = e.description
                  /\ got.url = e.url
                  /\ Unix(got.time) = Unix(e.time)
      ]_vars

\* C2 witness: an event saved with a non-UTC offset has been read back
C2_Witness ==
    /\ last.op = "FindbyID" /\ last.err = "" /\ last.out # None
    /\ last.out[1].time.off # 0

\* C9: FindbyID of an id with no stored row fails with sql.ErrNoRows and
\* returns no event, Delete of an id with no stored row fails with the same
\* sql.ErrNoRows, and neither returns it when the row exists.
C9_NotFoundSentinel ==
    /\ last.op = "FindbyID" =>
          /\ (last.id \notin DOMAIN rows) <=> (last.err = ErrNoRows)
          /\ last.err = ErrNoRows => last.out = None
    /\ last.op = "Delete" => (~last.had <=> last.err = ErrNoRows)

\* C9 witness: a lookup of an absent id in a non-empty store
C9_Witness ==
    /\ last.op = "FindbyID" /\ last.err = ErrNoRows
    /\ DOMAIN rows # {}

\* C10: a successful Delete removes exactly the row of its id (the count
\* drops by one, every other row is unchanged), from then on FindbyID of
\* the id is not-found until a Save of that id stores it again, and a
\* Delete of an absent id changes no row.
C10_DeleteEffect ==
    [][/\ (last'.op = "Delete" /\ last' # last /\ last'.err = "") =>
            /\ last'.id \in DOMAIN rows
            /\ Cardinality(DOMAIN rows') = Cardinality(DOMAIN rows) - 1
            /\ DOMAIN rows' = (DOMAIN rows) \ {last'.id}
            /\ \A i \in DOMAIN rows' : rows'[i] = rows[i]
            /\ FindbyIDResult(rows', last'.id, now').err = ErrNoRows
       /\ (last'.op = "Delete" /\ last' # last /\ last'.err # "") => rows' = rows
       /\ \A id \in IDs :
            (id \notin DOMAIN rows) =>
                /\ FindbyIDResult(rows, id, now).err = ErrNoRows
                /\ (id \in DOMAIN rows') => (last'.op = "Save" /\ last'.id = id)
                /\ (last'.op = "FindbyID" /\ last'.id = id) => last'.err = ErrNoRows
      ]_vars

\* C10 witness: a Delete has succeeded and left another row in the store
C10_Witness ==
    /\ last.op = "Delete" /\ last.err = ""
    /\ DOMAIN rows # {}

\* the last call was FindAll or Count with a criteria of the family CS
Queried(CS) ==
    /\ last.op \in {"FindAll", "Count"}
    /\ last.crit # None
    /\ last.crit[1] \in CS

\* the ids of the events a successful FindAll returned
ReturnedIds == {last.list[1][k].id : k \in 1..Len(last.list[1])}

\* C3: with a non-empty status set S and no other filter, FindAll returns
\* only events whose status is in S and Count returns the number of stored
\* events whose status is in S.
C3_StatusFilter ==
    Queried(StatusCriteria) =>
        LET S == Range(last.crit[1].Statuses)
        IN /\ (last.op = "FindAll" /\ last.err = "") =>
                 \A k \in 1..Len(last.list[1]) : last.list[1][k].status \in S
           /\ last.op = "Count" =>
                 last.n = Cardinality({i \in DOMAIN rows : rows[i].status \in S})

\* the occurrence instant of a stored row
RowInstant(r) == parseTimeFlexible(r.event_time).t

\* the stored rows whose instant lies in the criteria's inclusive time range
InTimeRange(rs, c) ==
    {i \in DOMAIN rs :
        /\ c.StartTime # None => ~TimeBefore(RowInstant(rs[i]), c.StartTime[1])
        /\ c.EndTime # None => ~TimeBefore(c.EndTime[1], RowInstant(rs[i]))}

\* C4: with StartTime s and/or EndTime e set, FindAll and Count select
\* exactly the stored events whose occurrence instant t has s <= t and
\* t <= e, both inclusive, for every stored time and every bound.
C4_TimeFilter ==
    Queried(TimeCriteria) =>
        /\ last.op = "Count" => last.n = Cardinality(InTimeRange(rows, last.crit[1]))
        /\ (last.op = "FindAll" /\ last.err = "") =>
              ReturnedIds = InTimeRange(rows, last.crit[1])

\* e1 may come directly before e2 in the order the criteria asks for
InOrder(c, e1, e2) ==
    LET leq(x, y) ==
            CASE c.OrderBy = "time" -> ~TimeBefore(y.time, x.time)
              [] c.OrderBy = "magnitude" -> x.magnitude.value <= y.magnitude.value
              [] c.OrderBy = "depth" -> x.location.Depth <= y.location.Depth
              [] c.OrderBy = "place" -> LexLeq(x.place, y.place)
    IN IF c.Ascending THEN leq(e1, e2) ELSE leq(e2, e1)

\* C5: for each order-by field (time, magnitude, depth, place) and each
\* direction, every two consecutive events FindAll returns are in that
\* order, time being compared as the occurrence instant.
C5_Sorted ==
    (Queried(SortCriteria) /\ last.op = "FindAll" /\ last.err = "") =>
        \A k \in 1..(Len(last.list[1]) - 1) :
            InOrder(last.crit[1], last.list[1][k], last.list[1][k + 1])

\* the great-circle angle in degrees between two points, where it is a whole
\* number: one of them a pole, both on one meridian, on opposite meridians,
\* or both on the equator; -1 elsewhere
AngleDeg(lat1, lon1, lat2, lon2) ==
    IF lat1 \in {90, -90} \/ lat2 \in {90, -90} \/ lon1 = lon2 THEN Abs(lat1 - lat2)
    ELSE IF Abs(lon1 - lon2) = 180 THEN 180 - Abs(lat1 + lat2)
    ELSE IF lat1 = 0 /\ lat2 = 0 THEN Min(Abs(lon1 - lon2), 360 - Abs(lon1 - lon2))
    ELSE -1

\* the stored row lies within radiusKm of the point, by great-circle distance
\* (one degree of a great circle is 111195 metres, mean earth radius 6371 km)
WithinRadius(r, location, radiusKm) ==
    LET a == AngleDeg(r.latitude, r.longitude, location.Latitude, location.Longitude)
    IN a >= 0 /\ a * 111195 <= radiusKm * 1000

\* C6: the proximity filter has no false negatives: a stored event within
\* great-circle distance R of the query point is selected by FindAll and
\* counted by Count.
C6_NoFalseNegative ==
    Queried(ProximityCriteria) =>
        \A i \in DOMAIN rows :
            WithinRadius(rows[i], last.crit[1].Location[1], last.crit[1].RadiusKm[1])
                => i \in last.sel

\* C7: on a store in which N rows match, FindAll with limit L in [0,1000]
\* and offset O >= 0 returns, without error, a non-nil list of exactly
\* max(0, min(L, N - O)) events.
C7_PageSize ==
    (Queried(PageCriteria) /\ last.op = "FindAll") =>
        /\ last.err = ""
        /\ last.list # None
        /\ Len(last.list[1]) =
              Max(0, Min(last.crit[1].Limit, Cardinality(DOMAIN rows) - last.crit[1].Offset))

\* the stored rows that satisfy every magnitude and type filter that is set
SatisfyFilters(rs, c) ==
    {i \in DOMAIN rs :
        /\ c.MinMagnitude # None => rs[i].magnitude_value >= c.MinMagnitude[1]
        /\ c.MaxMagnitude # None => rs[i].magnitude_value <= c.MaxMagnitude[1]
        /\ c.EventTypes # <<>> => \E k \in 1..Len(c.EventTypes) :
                                     c.EventTypes[k].value = rs[i].event_type}

\* C8: filters are conjunctive and optional.  FindAll and Count select
\* exactly the stored events with magnitude >= MinMagnitude, magnitude <=
\* MaxMagnitude and type in EventTypes, for the filters that are set; an
\* unset filter excludes nothing.  Count returns their number and a FindAll
\* that returns events returns exactly them.
C8_Filters ==
    Queried(FilterCriteria) =>
        /\ last.sel = SatisfyFilters(rows, last.crit[1])
        /\ last.op = "Count" => last.n = Cardinality(SatisfyFilters(rows, last.crit[1]))
        /\ (last.op = "FindAll" /\ last.err = "") =>
              ReturnedIds = SatisfyFilters(rows, last.crit[1])

\* C8 witness: a FindAll with a minimum, a maximum and a type filter has
\* returned some stored events and left others out
C8_Witness ==
    /\ Queried(FilterCriteria) /\ last.op = "FindAll" /\ last.err = ""
    /\ last.crit[1].MinMagnitude # None
    /\ last.crit[1].MaxMagnitude # None
    /\ last.crit[1].EventTypes # <<>>
    /\ ReturnedIds # {}
    /\ ReturnedIds # DOMAIN rows

\* ------------------------------------------------------- query text (C11)
selectAllEventsQuery == "SELECT <columns> FROM events WHERE 1=1"

\* the fragments appendEventFilters writes to the query builder, in order;
\* every value goes to the argument list, the text gets a "?" per value
FilterText(c) ==
    (IF c.MinMagnitude # None THEN <<" AND magnitude_value >= ?">> ELSE <<>>)
    \o (IF c.MaxMagnitude # None THEN <<" AND magnitude_value <= ?">> ELSE <<>>)
    \o (IF c.StartTime # None THEN <<" AND event_time >= ?">> ELSE <<>>)
    \o (IF c.EndTime # None THEN <<" AND event_time <= ?">> ELSE <<>>)
    \o (IF Len(c.EventTypes) > 0
        THEN <<" AND event_type IN (">>
             \o [k \in 1..(2 * Len(c.EventTypes) - 1) |-> IF k % 2 = 1 THEN "?" ELSE ", "]
             \o <<")">>
        ELSE <<>>)
    \o (IF Len(c.Statuses) > 0
        THEN <<" AND description IN (">>
             \o [k \in 1..(2 * Len(c.Statuses) - 1) |-> IF k % 2 = 1 THEN "?" ELSE ", "]
             \o <<")">>
        ELSE <<>>)
    \o (IF c.Location # None /\ c.RadiusKm # None
        THEN <<" AND latitude BETWEEN ? AND ?", " AND longitude BETWEEN ? AND ?">>
        ELSE <<>>)

\* the text FindAll hands to QueryContext, as the fragments written to the
\* query builder
FindAllQuery(c) ==
    <<selectAllEventsQuery>> \o FilterText(c)
    \o <<" ORDER BY ", orderByColumn(c), (IF c.Ascending THEN " ASC" ELSE " DESC"),
         " LIMIT ? OFFSET ?">>

\* order-by names written directly to the exported field
RawOrderBys ==
    {"time", "magnitude", "depth", "place", "", "id; DROP TABLE events; --"}

OrderByCriteria ==
    {[NewQueryCriteria EXCEPT !.OrderBy = o, !.Ascending = asc, !.Statuses = st] :
        o \in RawOrderBys, asc \in BOOLEAN,
        st \in {<<>>, <<"x') OR 1=1; --", "reviewed">>}}

NextOrderBy ==
    \/ \E e \in HeldEvents(now) : Save(e)
    \/ \E id \in IDs : Delete(id)
    \/ \E c \in OrderByCriteria : FindAll(c)
    \/ \E c \in OrderByCriteria : Count(c)

SpecOrderBy == Init /\ [][NextOrderBy]_vars

\* the fixed texts the repository's source contains
QueryLiterals ==
    {selectAllEventsQuery, " AND magnitude_value >= ?", " AND magnitude_value <= ?",
     " AND event_time >= ?", " AND event_time <= ?", " AND event_type IN (",
     " AND description IN (", "?", ", ", ")", " AND latitude BETWEEN ? AND ?",
     " AND longitude BETWEEN ? AND ?", " ORDER BY ", " ASC", " DESC", " LIMIT ? OFFSET ?",
     "event_time", "magnitude_value", "depth_km", "location_name"}

\* C11: sort-column allow-list.  For every value of the criteria's order-by
\* field, also one written directly to the field, the column FindAll writes
\* after ORDER BY is one of event_time, magnitude_value, depth_km,
\* location_name, and every fragment of the query text is a fixed text of
\* the source: no caller-supplied text is part of it.
C11_SortAllowList ==
    (Queried(OrderByCriteria) /\ last.op = "FindAll") =>
        LET q == FindAllQuery(last.crit[1])
        IN /\ \E k \in 1..(Len(q) - 1) :
                 /\ q[k] = " ORDER BY "
                 /\ q[k + 1] \in {"event_time", "magnitude_value", "depth_km", "location_name"}
           /\ \A k \in 1..Len(q) : q[k] \in QueryLiterals

\* C11 witness: FindAll has run with an order-by name outside the allowed
\* set and a hostile status value, on a store with rows to order
C11_Witness ==
    /\ Queried(OrderByCriteria) /\ last.op = "FindAll" /\ last.err = ""
    /\ last.crit[1].OrderBy = "id; DROP TABLE events; --"
    /\ last.crit[1].Statuses # <<>>
    /\ Cardinality(DOMAIN rows) = MaxRows

\* ------------------------------------------------- hostile contents (C12)
\* "';--"
PlaceHostile == <<39, 59, 45, 45>>

HostileID == "'; DROP TABLE events; --"

\* constructor arguments carrying quotes, semicolons and SQL
HostileRawEvents ==
    { [id |-> HostileID, lat |-> 0, lon |-> 0, depth |-> 10, mag |-> 50, scale |-> "mw",
       type |-> "earthquake", time |-> TimeA, place |-> PlaceLA, status |-> "reviewed",
       description |-> "Earthquake detected", url |-> "u1"],
      [id |-> "a", lat |-> 0, lon |-> 0, depth |-> 10, mag |-> 50, scale |-> "mw",
       type |-> "earthquake", time |-> TimeA, place |-> PlaceHostile,
       status |-> "reviewed'; DELETE FROM events; --",
       description |-> "x'); DROP TABLE events; --",
       url |-> "https://test.url'; DROP TABLE events; --"],
      [id |-> "a", lat |-> 0, lon |-> 179, depth |-> 10, mag |-> 50, scale |-> "Mw",
       type |-> "earthquake", time |-> TimeA, place |-> PlaceLA, status |-> "reviewed",
       description |-> "Earthquake detected", url |-> "u1"],
      [id |-> "b", lat |-> 0, lon |-> -179, depth |-> 20, mag |-> 15, scale |-> "richter",
       type |-> "EARTHQUAKE", time |-> TimeB, place |-> PlaceLower, status |-> "reviewed",
       description |-> "", url |-> "u1"] }

HostileEvents(clock) ==
    {BuildEvent(raw, clock)[1] : raw \in {r \in HostileRawEvents : BuildEvent(r, clock) # None}}

HostileCriteria ==
    {NewQueryCriteria,
     [NewQueryCriteria EXCEPT !.Statuses = <<"reviewed'; DELETE FROM events; --">>]}

NextHostile ==
    \/ Tick
    \/ \E e \in HostileEvents(now) : Save(e)
    \/ \E id \in IDs \cup {HostileID} : FindbyID(id)
    \/ \E id \in IDs \cup {HostileID} : Delete(id)
    \/ \E c \in HostileCriteria : FindAll(c)
    \/ \E c \in HostileCriteria : Count(c)

SpecHostile == Init /\ [][NextHostile]_vars

\* C12: field contents are data, never commands.  Whatever text the id,
\* place, status, description and url hold, a Save changes no row but the
\* one keyed by its id, and FindbyID, FindAll and Count change no row.
C12_ContentsAreData ==
    [][/\ last'.op = "Save" =>
            /\ DOMAIN rows' \subseteq (DOMAIN rows) \cup {last'.id}
            /\ \A i \in (DOMAIN rows) \ {last'.id} : i \in DOMAIN rows' /\ rows'[i] = rows[i]
       /\ last'.op \in {"FindbyID", "FindAll", "Count"} => rows' = rows
      ]_vars

\* C12 witness: an event whose place, status, description and url carry SQL
\* has been saved beside another row
C12_Witness ==
    /\ last.op = "Save" /\ last.err = ""
    /\ last.arg[1].description = "x'); DROP TABLE events; --"
    /\ last.arg[1].place = PlaceHostile
    /\ (DOMAIN rows) \ {last.id} # {}
    /\ last.id \in DOMAIN rows
    /\ rows[last.id].description = "x'); DROP TABLE events; --"

\* ------------------------------------------------ cancelled context (C13)
ErrCanceled == "context canceled"

\* mutant of ExecContext: the statement runs before the context is looked at
ExecContextLate(ctx, rs, after) ==
    IF ctx = "cancelled" THEN [err |-> ErrCanceled, rows |-> after]
    ELSE [err |-> "", rows |-> after]

\* db.ExecContext / QueryContext / QueryRowContext: a context that is
\* already done is reported before a connection is taken, the statement
\* does not run; after is the table once the statement has run
ExecContext(ctx, rs, after) ==
    IF ctx = "cancelled" THEN [err |-> ErrCanceled, rows |-> rs]
    ELSE [err |-> "", rows |-> after]

\* Save called with a cancelled context
SaveCancelled(e) ==
    /\ LET res == ExecContext("cancelled", rows, insertEventQuery(rows, SaveArgs(e, now)))
       IN /\ rows' = res.rows
          /\ last' = [Outcome("SaveCancelled", e.id, Some(e), None, res.err, None, None, 0)
                         EXCEPT !.had = e.id \in DOMAIN rows]
    /\ UNCHANGED <<schema, now>>

\* FindbyID called with a cancelled context: the row carries the error and
\* Scan returns it
FindbyIDCancelled(id) ==
    /\ LET res == ExecContext("cancelled", rows, rows)
           found == IF res.err # "" THEN [err |-> res.err, ev |-> None]
                    ELSE FindbyIDResult(res.rows, id, now)
       IN /\ rows' = res.rows
          /\ last' = Outcome("FindbyIDCancelled", id, None, None, found.err, found.ev, None, 0)
    /\ UNCHANGED <<schema, now>>

\* FindAll called with a cancelled context (criteria nil or not)
FindAllCancelled(c) ==
    /\ LET res == ExecContext("cancelled", rows, rows)
       IN /\ rows' = res.rows
          /\ \E f \in OrderBy(res.rows, Selected(res.rows, c), c) :
               LET got == IF res.err # "" THEN [err |-> res.err, list |-> None]
                          ELSE ScanRows(res.rows, LimitOffset(f, c.Limit, c.Offset), now)
               IN last' = Outcome("FindAllCancelled", "", None, Some(c), got.err, None,
                                  got.list, 0)
    /\ UNCHANGED <<schema, now>>

NextCancel ==
    \/ \E e \in HeldEvents(now) : Save(e)
    \/ \E id \in IDs : Delete(id)
    \/ \E e \in HeldEvents(now) : SaveCancelled(e)
    \/ \E id \in IDs : FindbyIDCancelled(id)
    \/ \E c \in StatusCriteria \cup {NewQueryCriteria} : FindAllCancelled(c)

SpecCancel == Init /\ [][NextCancel]_vars

\* C13: cancelled context.  Save, FindbyID and FindAll called with a context
\* that is already cancelled each return an error, FindbyID and FindAll
\* return no result, and the store holds exactly the rows it held before the
\* call: a cancelled Save leaves no new and no partly updated row.
C13_CancelledContext ==
    [][last'.op \in {"SaveCancelled", "FindbyIDCancelled", "FindAllCancelled"} =>
            /\ last'.err # ""
            /\ last'.out = None
            /\ last'.list = None
            /\ rows' = rows
      ]_vars

\* C13 witness: a cancelled Save of a stored id whose row holds other values
C13_Witness ==
    /\ last.op = "SaveCancelled" /\ last.err = ErrCanceled
    /\ last.id \in DOMAIN rows
    /\ ~RowHolds(rows[last.id], last.arg[1])

\* ---------------------------------------------- Event calls (C14 C15 C16)
\* arguments callers pass to NewEvent.  Location has exported fields, so a
\* literal with any latitude can be passed; Magnitude{} and Type{} are the
\* zero values a caller can pass without the constructors
NewEventArgs ==
    [id : {"", "a"},
     location : {[Latitude |-> 0, Longitude |-> 179, Depth |-> 10],
                 [Latitude |-> 200, Longitude |-> 0, Depth |-> -5000]},
     place : {<<>>, PlaceLA},
     magnitude : {ZeroMagnitude, [value |-> 50, scale |-> "mw"]},
     eventType : {ZeroType, [value |-> "earthquake"]},
     eventTime : {ZeroTime, TimeA, TimeC},
     status : {"", "reviewed"},
     description : {"Earthquake detected"},
     url : {"u1"}]

\* status values callers pass to UpdateStatus
NewStatuses == {"", "automatic", "reviewed"}

\* mutant of UpdateStatusReceiver: the status is written through the receiver
UpdateStatusReceiverInPlace(e, newStatus, updatedTime) ==
    [e EXCEPT !.status = newStatus, !.updated = updatedTime]

\* the receiver *e once UpdateStatus has returned: the method reads the
\* fields of e into a new Event and assigns nothing through e
UpdateStatusReceiver(e, newStatus, updatedTime) == e

\* the events the caller holds after the last call: the one it returned and
\* the receiver it was called on
HeldRefs ==
    { last.out[k] : k \in 1..Len(last.out) }
    \cup (IF last.op = "UpdateStatus" THEN {last.arg[1].recv} ELSE {})

NewEventCall(a) ==
    /\ LET res == NewEvent(a.id, a.location, a.place, a.magnitude, a.eventType,
                           a.eventTime, a.status, a.description, a.url, now)
       IN last' = Outcome("NewEvent", a.id, Some(a), None, res.err, res.ev, None, 0)
    /\ UNCHANGED <<schema, rows, now>>

\* e.UpdateStatus(newStatus, updatedTime) on an event the caller holds;
\* before is the receiver as it was when the call was made
UpdateStatusCall(e, newStatus, updatedTime) ==
    /\ e \in HeldRefs
    /\ last' = Outcome("UpdateStatus", e.id,
                       Some([before |-> e,
                             recv |-> UpdateStatusReceiver(e, newStatus, updatedTime),
                             newStatus |-> newStatus, updatedTime |-> updatedTime]),
                       None, "", Some(UpdateStatus(e, newStatus, updatedTime)), None, 0)
    /\ UNCHANGED <<schema, rows, now>>

NextEvent ==
    \/ Tick
    \/ \E a \in NewEventArgs : NewEventCall(a)
    \/ \E e \in HeldRefs, s \in NewStatuses, t \in 0..(MaxClock + 1) : UpdateStatusCall(e, s, t)

SpecEvent == Init /\ [][NextEvent]_vars

\* C14: Event invariant.  Every Event returned by a successful NewEvent or
\* by any sequence of UpdateStatus calls on it has a non-empty id, a
\* non-zero occurrence time and a non-empty status.
C14_EventInvariant ==
    last.op \in {"NewEvent", "UpdateStatus"} =>
        \A e \in HeldRefs : e.id # "" /\ ~IsZero(e.time) /\ e.status # ""

\* C15: copy-on-update.  UpdateStatus(newStatus, t) returns a new Event with
\* status newStatus and updated time t whose id, location, place, magnitude,
\* type, occurrence time, description and url equal the receiver's, and the
\* receiver's status and updated time are after the call what they were
\* before it, however many calls the holders of the receiver make.
C15_CopyOnUpdate ==
    last.op = "UpdateStatus" =>
        LET a == last.arg[1]
            new == last.out[1]
        IN /\ new.status = a.newStatus
           /\ new.updated = a.updatedTime
           /\ new.id = a.before.id
           /\ new.location = a.before.location
           /\ new.place = a.before.place
           /\ new.magnitude = a.before.magnitude
           /\ new.eventType = a.before.eventType
           /\ new.time = a.before.time
           /\ new.description = a.before.description
           /\ new.url = a.before.url
           /\ a.recv.status = a.before.status
           /\ a.recv.updated = a.before.updated
           /\ a.recv = a.before

\* C15 witness: an event that was itself returned by UpdateStatus has been
\* updated to another status at another time, and is still held unchanged
C15_Witness ==
    /\ last.op = "UpdateStatus"
    /\ last.arg[1].before.status = "automatic"
    /\ last.out[1].status = "reviewed"
    /\ last.out[1].updated # last.arg[1].before.updated
    /\ last.arg[1].recv \in HeldRefs

\* C16: NewEvent returns an error and no event exactly when the id is empty,
\* the occurrence time is zero or the status is empty; otherwise it returns
\* an event holding the given id, location, place, magnitude, type,
\* occurrence time and status unchanged, whatever the location, magnitude,
\* type and place are.
C16_NewEventContract ==
    last.op = "NewEvent" =>
        LET a == last.arg[1]
            invalid == a.id = "" \/ IsZero(a.eventTime) \/ a.status = ""
        IN /\ invalid <=> last.err # ""
           /\ invalid <=> last.out = None
           /\ ~invalid =>
                 /\ last.out[1].id = a.id
                 /\ last.out[1].location = a.location
                 /\ last.out[1].place = a.place
                 /\ last.out[1].magnitude = a.magnitude
                 /\ last.out[1].eventType = a.eventType
                 /\ last.out[1].time = a.eventTime
                 /\ last.out[1].status = a.status

\* C16 witness: NewEvent has accepted a latitude of 200, an empty place, the
\* zero Magnitude and the zero Type
C16_Witness ==
    /\ last.op = "NewEvent" /\ last.err = "" /\ last.out # None
    /\ last.out[1].location.Latitude = 200
    /\ last.out[1].place = <<>>
    /\ last.out[1].magnitude = ZeroMagnitude
    /\ last.out[1].eventType = ZeroType

\* ------------------------------------------- QueryCriteria setters (C17 C18)
\* each setter returns its error ("" for nil) and the criteria after the call
WithMagnitudeRange(c, minMag, maxMag) ==
    IF FLess(minMag, -10) \/ FGreater(maxMag, 100)
      THEN [err |-> "invalid magnitude range", c |-> c]
    ELSE IF FLess(maxMag, -10) \/ FGreater(maxMag, 100)
      THEN [err |-> "invalid magnitude range", c |-> c]
    ELSE IF FLess(maxMag, minMag)
      THEN [err |-> "invalid magnitude range", c |-> c]
    ELSE [err |-> "", c |-> [c EXCEPT !.MinMagnitude = Some(minMag), !.MaxMagnitude = Some(maxMag)]]

WithTimeRange(c, start, end) ==
    IF TimeBefore(end, start) THEN [err |-> "invalid time range", c |-> c]
    ELSE [err |-> "", c |-> [c EXCEPT !.StartTime = Some(start), !.EndTime = Some(end)]]

WithProximity(c, location, radiusKm) ==
    IF FLess(radiusKm, 0) THEN [err |-> "radiusKm must be non-negative", c |-> c]
    ELSE IF FGreater(radiusKm, 20000) THEN [err |-> "radiusKm must not exceed 20000 km", c |-> c]
    ELSE [err |-> "", c |-> [c EXCEPT !.Location = Some(location), !.RadiusKm = Some(radiusKm)]]

WithEventTypes(c, types) ==
    IF Len(types) = 0 THEN [err |-> "at least one event type must be specified", c |-> c]
    ELSE [err |-> "", c |-> [c EXCEPT !.EventTypes = types]]

WithStatuses(c, statuses) ==
    IF Len(statuses) = 0 THEN [err |-> "at least one status must be specified", c |-> c]
    ELSE [err |-> "", c |-> [c EXCEPT !.Statuses = statuses]]

WithPagination(c, limit, offset) ==
    IF limit < 0 THEN [err |-> "limit must be non-negative", c |-> c]
    ELSE IF limit > 1000 THEN [err |-> "limit must not exceed 1000", c |-> c]
    ELSE IF offset < 0 THEN [err |-> "offset must be non-negative", c |-> c]
    ELSE [err |-> "", c |-> [c EXCEPT !.Limit = limit, !.Offset = offset]]

validFields == {"time", "magnitude", "depth", "place"}

WithSort(c, orderBy, ascending) ==
    IF orderBy \notin validFields THEN [err |-> "invalid orderBy field", c |-> c]
    ELSE [err |-> "", c |-> [c EXCEPT !.OrderBy = orderBy, !.Ascending = ascending]]

\* setter arguments: magnitudes in tenths, radii in km
MagnitudeInputs == {NaN, -11, -10, 100, 101}
RadiusInputs == {NaN, -1, 20000, 20001}
LimitInputs == {-1, 1000, 1001}
OffsetInputs == {-1, 0}

\* one setter call on the criteria c: the setter's name, its arguments and
\* what it returned
SetterCalls(c) ==
    {[op |-> "WithMagnitudeRange", in |-> <<lo, hi>>, res |-> WithMagnitudeRange(c, lo, hi)] :
        lo \in MagnitudeInputs, hi \in MagnitudeInputs}
    \cup {[op |-> "WithTimeRange", in |-> <<s, e>>, res |-> WithTimeRange(c, s, e)] :
        s \in {TimeA, TimeC}, e \in {TimeA, TimeC}}
    \cup {[op |-> "WithProximity", in |-> <<ZeroLocation, r>>, res |-> WithProximity(c, ZeroLocation, r)] :
        r \in RadiusInputs}
    \cup {[op |-> "WithEventTypes", in |-> <<ts>>, res |-> WithEventTypes(c, ts)] :
        ts \in {<<>>, <<TypeOf("earthquake")>>}}
    \cup {[op |-> "WithStatuses", in |-> <<st>>, res |-> WithStatuses(c, st)] :
        st \in {<<>>, <<"reviewed">>}}
    \cup {[op |-> "WithPagination", in |-> <<l, o>>, res |-> WithPagination(c, l, o)] :
        l \in LimitInputs, o \in OffsetInputs}
    \cup {[op |-> "WithSort", in |-> <<f, TRUE>>, res |-> WithSort(c, f, TRUE)] :
        f \in {"depth", "id", ""}}

NewQueryCriteriaCall ==
    /\ last' = Outcome("NewQueryCriteria", "", None, Some(NewQueryCriteria), "", None, None, 0)
    /\ UNCHANGED <<schema, rows, now>>

\* a With* call on the criteria the caller holds
SetterCall ==
    /\ last.crit # None
    /\ \E call \in SetterCalls(last.crit[1]) :
         last' = Outcome(call.op, "", Some(call.in), Some(call.res.c), call.res.err, None, None, 0)
    /\ UNCHANGED <<schema, rows, now>>

NextCriteria ==
    \/ NewQueryCriteriaCall
    \/ SetterCall

SpecCriteria == Init /\ [][NextCriteria]_vars

SetterNames ==
    {"WithMagnitudeRange", "WithTimeRange", "WithProximity", "WithEventTypes",
     "WithStatuses", "WithPagination", "WithSort"}

\* a <= b on float64: false when either side is NaN
FLeq(a, b) == a # NaN /\ b # NaN /\ a <= b

\* the arguments of a setter call are outside what the criteria may hold
InvalidInput(op, in) ==
    CASE op = "WithMagnitudeRange" ->
            ~(FLeq(-10, in[1]) /\ FLeq(in[1], in[2]) /\ FLeq(in[2], 100))
      [] op = "WithTimeRange" -> TimeBefore(in[2], in[1])
      [] op = "WithProximity" -> ~(FLeq(0, in[2]) /\ FLeq(in[2], 20000))
      [] op = "WithEventTypes" -> Len(in[1]) = 0
      [] op = "WithStatuses" -> Len(in[1]) = 0
      [] op = "WithPagination" -> in[1] < 0 \/ in[1] > 1000 \/ in[2] < 0
      [] op = "WithSort" -> in[1] \notin validFields

\* C17: rejected setters change nothing.  Each With* setter called with
\* invalid input returns an error, and a setter that returns an error leaves
\* every field of the criteria as it was before the call, values committed
\* by earlier successful calls included.
C17_RejectedSettersChangeNothing ==
    [][last'.op \in SetterNames =>
            /\ InvalidInput(last'.op, last'.arg[1]) => last'.err # ""
            /\ last'.err # "" => last'.crit = last.crit
      ]_vars

\* C18: QueryCriteria invariant.  After NewQueryCriteria and any sequence of
\* With* calls, succeeding or failing: limit in [0,1000], offset >= 0,
\* order-by in {time, magnitude, depth, place}; when magnitude bounds are
\* set, -1 <= min <= max <= 10; when time bounds are set, end is not before
\* start; when a radius is set it is in [0,20000] km and a location is set
\* with it.
C18_CriteriaInvariant ==
    (last.op \in SetterNames \cup {"NewQueryCriteria"}) =>
        LET c == last.crit[1]
        IN /\ c.Limit >= 0 /\ c.Limit <= 1000
           /\ c.Offset >= 0
           /\ c.OrderBy \in validFields
           /\ (c.MinMagnitude # None \/ c.MaxMagnitude # None) =>
                 /\ c.MinMagnitude # None /\ c.MaxMagnitude # None
                 /\ FLeq(-10, c.MinMagnitude[1])
                 /\ FLeq(c.MinMagnitude[1], c.MaxMagnitude[1])
                 /\ FLeq(c.MaxMagnitude[1], 100)
           /\ (c.StartTime # None /\ c.EndTime # None) =>
                 ~TimeBefore(c.EndTime[1], c.StartTime[1])
           /\ c.RadiusKm # None =>
                 /\ FLeq(0, c.RadiusKm[1]) /\ FLeq(c.RadiusKm[1], 20000)
                 /\ c.Location # None

\* --------------------------------------------------- nil criteria (C19)
\* mutant of DefaultIfNil: the nil case sorts ascending
DefaultIfNilAscending(criteria) ==
    IF criteria = None THEN [NewQueryCriteria EXCEPT !.Ascending = TRUE] ELSE criteria[1]

\* if criteria == nil { criteria = event.NewQueryCriteria() }
DefaultIfNil(criteria) ==
    IF criteria = None THEN NewQueryCriteria ELSE criteria[1]

\* every (error, list) FindAll can return for a criteria on a table
FindAllResults(rs, c, clock) ==
    {ScanRows(rs, LimitOffset(f, c.Limit, c.Offset), clock) : f \in OrderBy(rs, Selected(rs, c), c)}

\* FindAll(ctx, nil)
FindAllNil ==
    /\ LET c == DefaultIfNil(None)
       IN \E res \in FindAllResults(rows, c, now) :
            last' = [Outcome("FindAll", "", None, None, res.err, None, res.list, 0)
                        EXCEPT !.sel = Selected(rows, c)]
    /\ UNCHANGED <<schema, rows, now>>

\* Count(ctx, nil)
CountNil ==
    /\ LET c == DefaultIfNil(None)
       IN last' = [Outcome("Count", "", None, None, "", None, None,
                           Cardinality(Selected(rows, c)))
                      EXCEPT !.sel = Selected(rows, c)]
    /\ UNCHANGED <<schema, rows, now>>

NextNil ==
    \/ \E e \in HeldEvents(now) : Save(e)
    \/ \E id \in IDs : Delete(id)
    \/ FindAllNil
    \/ CountNil
    \/ FindAll(NewQueryCriteria)
    \/ Count(NewQueryCriteria)

SpecNil == Init /\ [][NextNil]_vars

\* C19: nil criteria means default criteria.  FindAll and Count called with
\* nil return what they return with NewQueryCriteria(): no filter, limit 100,
\* offset 0, order by time descending.
C19_NilIsDefault ==
    /\ (last.op = "FindAll" /\ last.crit = None) =>
          /\ [err |-> last.err, list |-> last.list] \in FindAllResults(rows, NewQueryCriteria, now)
          /\ last.sel = DOMAIN rows
    /\ (last.op = "Count" /\ last.crit = None) =>
          /\ last.n = Cardinality(Selected(rows, NewQueryCriteria))
          /\ last.n = Cardinality(DOMAIN rows)
    /\ LET c == DefaultIfNil(None)
       IN /\ c.MinMagnitude = None /\ c.MaxMagnitude = None
          /\ c.StartTime = None /\ c.EndTime = None
          /\ c.Location = None /\ c.RadiusKm = None
          /\ c.EventTypes = <<>> /\ c.Statuses = <<>>
          /\ c.Limit = 100 /\ c.Offset = 0
          /\ c.OrderBy = "time" /\ ~c.Ascending

\* C19 witness: FindAll(nil) has returned two events with different
\* occurrence times
C19_Witness ==
    /\ last.op = "FindAll" /\ last.crit = None /\ last.err = ""
    /\ Len(last.list[1]) = 2
    /\ last.list[1][1].time # last.list[1][2].time

\* ------------------------------------------------------ NewLocation (C20)
LatitudeInputs == {NaN, -91, -90, 0, 90, 91}
LongitudeInputs == {NaN, -181, -180, 0, 180, 181}
DepthInputs == {-5000, -20, -10, 10, 1000, 1500}

NewLocationCall(latitude, longitude, depth) ==
    /\ LET res == NewLocation(latitude, longitude, depth)
       IN last' = Outcome("NewLocation", "", Some(<<latitude, longitude, depth>>), None,
                          IF res.err THEN "out of range" ELSE "", Some(res.v), None, 0)
    /\ UNCHANGED <<schema, rows, now>>

NextLocation ==
    \E latitude \in LatitudeInputs, longitude \in LongitudeInputs, depth \in DepthInputs :
        NewLocationCall(latitude, longitude, depth)

SpecLocation == Init /\ [][NextLocation]_vars

\* C20: NewLocation(lat, lon, depth) succeeds exactly when -90 <= lat <= 90
\* and -180 <= lon <= 180, whatever the depth; on success the location holds
\* lat, lon and depth unchanged, on failure the zero Location is returned
\* with an error.
C20_NewLocationContract ==
    last.op = "NewLocation" =>
        LET latitude == last.arg[1][1]
            longitude == last.arg[1][2]
            depth == last.arg[1][3]
            inRange == /\ FLeq(-90, latitude) /\ FLeq(latitude, 90)
                       /\ FLeq(-180, longitude) /\ FLeq(longitude, 180)
        IN /\ inRange <=> last.err = ""
           /\ last.err = "" =>
                 last.out[1] = [Latitude |-> latitude, Longitude |-> longitude, Depth |-> depth]
           /\ last.err # "" => last.out[1] = ZeroLocation

\* C21: NewLocation returns an error and the zero Location when the depth is
\* below -10 km or above 1000 km, and accepts the boundary depths -10 and
\* 1000 (latitude and longitude being in range).
C21_DepthValidated ==
    last.op = "NewLocation" =>
        LET latitude == last.arg[1][1]
            longitude == last.arg[1][2]
            depth == last.arg[1][3]
            inRange == /\ FLeq(-90, latitude) /\ FLeq(latitude, 90)
                       /\ FLeq(-180, longitude) /\ FLeq(longitude, 180)
        IN /\ (FLess(depth, -10) \/ FGreater(depth, 1000)) =>
                 last.err # "" /\ last.out[1] = ZeroLocation
           /\ (inRange /\ depth \in {-10, 1000}) =>
                 /\ last.err = ""
                 /\ last.out[1] = [Latitude |-> latitude, Longitude |-> longitude,
                                   Depth |-> depth]

\* ---------------------------------------------------------------------
\* Magnitude and Type value objects called on their own
\* ---------------------------------------------------------------------

Magnitude_IsKnown(m) == m.scale # MagnitudeScaleUnknown

MagnitudeValues == {NaN, -20, -11, -10, 55, 100, 101}

ScaleInputs == {"mw", "ml", "mb", "ms", "md", "mww", "mwc", "mwr",
                "Mw", " ml ", "invalid_scale", ""}

NewMagnitudeCall(value, scale) ==
    /\ LET res == NewMagnitude(value, scale)
       IN last' = Outcome("NewMagnitude", "", Some(<<value, scale>>), None,
                          IF res.err THEN "magnitude must be between -1.0 and 10.0" ELSE "",
                          Some([m |-> res.v, isKnown |-> Magnitude_IsKnown(res.v)]),
                          None, 0)
    /\ UNCHANGED <<schema, rows, now>>

NextMagnitude ==
    \E value \in MagnitudeValues, scale \in ScaleInputs : NewMagnitudeCall(value, scale)

Type_IsKnown(et) == et.value # EventTypeOther

TypeInputs == {"earthquake", "quarry blast", "explosion", "other", "quarry", "landslide",
               "rockburst", "chemical explosion", "nuclear explosion", "ice quake",
               "volcanic eruption", "EARTHQUAKE", " Quarry", "  ", "", "meteor strike"}

NewTypeCall(value) ==
    /\ LET res == NewType(value)
       IN last' = Outcome("NewType", "", Some(value), None,
                          IF res.err THEN "value type cannot be empty" ELSE "",
                          Some([t |-> res.v, isKnown |-> Type_IsKnown(res.v)]),
                          None, 0)
    /\ UNCHANGED <<schema, rows, now>>

NextType == \E value \in TypeInputs : NewTypeCall(value)

NextValue == NextMagnitude \/ NextType

SpecValue == Init /\ [][NextValue]_vars

\* the canonical scale code of each input text, as the scale table lists them
CanonicalScale(scale) ==
    CASE scale \in {"mw", "ml", "mb", "ms", "md", "mww", "mwc", "mwr"} -> scale
      [] scale = "Mw" -> "mw"
      [] scale = " ml " -> "ml"
      [] OTHER -> "unknown"

\* C22: NewMagnitude(v, scale) fails exactly when v < -1.0 or v > 10.0,
\* never because of the scale; on success the value is kept, the stored scale
\* is the canonical code of the trimmed, lower-cased input when that is one
\* of the eight known codes and "unknown" otherwise, and IsKnown is true
\* exactly when the stored scale is not "unknown".
C22_NewMagnitudeContract ==
    last.op = "NewMagnitude" =>
        LET value == last.arg[1][1]
            scale == last.arg[1][2]
            res == last.out[1]
        IN /\ last.err # "" <=> (FLess(value, -10) \/ FGreater(value, 100))
           /\ last.err = "" =>
                 /\ res.m.value = value
                 /\ res.m.scale = CanonicalScale(scale)
                 /\ res.isKnown <=> res.m.scale # "unknown"

C22_Witness ==
    /\ last.op = "NewMagnitude"
    /\ last.err = ""
    /\ last.arg[1] = <<55, " ml ">>
    /\ last.out[1].m = [value |-> 55, scale |-> "ml"]
    /\ last.out[1].isKnown

\* the seven canonical categories
CanonicalTypes ==
    {"earthquake", "quarry blast", "explosion", "other", "landslide",
     "volcanic eruption", "ice quake"}

\* the category of each input text, as the type table lists them
CanonicalType(value) ==
    CASE value \in {"earthquake", "EARTHQUAKE"} -> "earthquake"
      [] value \in {"quarry blast", "quarry", " Quarry"} -> "quarry blast"
      [] value \in {"explosion", "chemical explosion", "nuclear explosion"} -> "explosion"
      [] value = "landslide" -> "landslide"
      [] value = "ice quake" -> "ice quake"
      [] value = "volcanic eruption" -> "volcanic eruption"
      [] OTHER -> "other"

\* C23: NewType fails exactly when its input is the empty string; every
\* other input succeeds with one of the seven canonical categories, the
\* table entry of the trimmed, lower-cased input when there is one and
\* "other" otherwise (a whitespace-only input included); IsKnown is true
\* exactly when the category is not "other".
C23_NewTypeContract ==
    last.op = "NewType" =>
        LET value == last.arg[1]
            res == last.out[1]
        IN /\ last.err # "" <=> value = ""
           /\ last.err = "" =>
                 /\ res.t.value \in CanonicalTypes
                 /\ res.t.value = CanonicalType(value)
                 /\ res.isKnown <=> res.t.value # "other"

C23_Witness ==
    /\ last.op = "NewType"
    /\ last.err = ""
    /\ last.arg[1] = "  "
    /\ last.out[1].t.value = "other"
    /\ ~last.out[1].isKnown

\* C24: every event that Save stored without error can be read back: the
\* store holds only rows written by an accepted Save, so FindbyID of a
\* stored id succeeds and a FindAll that selects stored rows succeeds.
C24_SavedIsReadable ==
    /\ (last.op = "FindbyID" /\ last.id \in DOMAIN rows) => last.err = ""
    /\ (last.op = "FindAll" /\ last.sel # {}) => last.err = ""

\* the latitude clause of the proximity filter alone
InLatitudeBand(r, location, radiusKm) ==
    /\ 111 * (location.Latitude - r.latitude) <= radiusKm
    /\ 111 * (r.latitude - location.Latitude) <= radiusKm

\* C25: pole guard: when the query latitude is a pole the longitude window
\* is the full longitude range, so for every query longitude no stored event
\* is excluded because of its longitude: every row inside the latitude band
\* is selected.
C25_PoleGuard ==
    (Queried(ProximityCriteria) /\ last.crit[1].Location[1].Latitude \in {90, -90}) =>
        \A i \in DOMAIN rows :
            InLatitudeBand(rows[i], last.crit[1].Location[1], last.crit[1].RadiusKm[1])
                => i \in last.sel

\* ---------------------------------------------------------------------
\* Rows written to the events table by plain SQL, not through Save
\* ---------------------------------------------------------------------

\* "2024-01-02T10:00:00": a stamp without a zone
NaiveStamp == SubSeq(FormatRFC3339(TimeA), 1, 19)

\* "soon"
NoStamp == <<115, 111, 111, 110>>

GoodRow ==
    [id |-> "a", event_type |-> "earthquake", magnitude_value |-> 50,
     magnitude_scale |-> "mw", latitude |-> 0, longitude |-> 0, depth_km |-> 10,
     event_time |-> FormatRFC3339(TimeA), location_name |-> PlaceLA,
     status |-> "reviewed", description |-> "Earthquake detected", url |-> "u1",
     updated_at |-> 0]

\* rows an INSERT statement can be given: one sound row and rows that each
\* break one rule of the domain
RawRows ==
    { GoodRow,
      [GoodRow EXCEPT !.id = "b", !.latitude = 200],
      [GoodRow EXCEPT !.id = "b", !.longitude = -300],
      [GoodRow EXCEPT !.id = "c", !.magnitude_value = 150],
      [GoodRow EXCEPT !.id = "c", !.event_type = ""],
      [GoodRow EXCEPT !.id = "b", !.status = ""],
      [GoodRow EXCEPT !.id = ""],
      [GoodRow EXCEPT !.id = "b", !.event_time = NoStamp],
      [GoodRow EXCEPT !.id = "c", !.event_time = NaiveStamp] }

\* INSERT INTO events (...) VALUES (...), run directly against the database
InsertRow(r) ==
    /\ r.id \notin DOMAIN rows
    /\ Cardinality(DOMAIN rows) < MaxRows
    /\ IF SchemaAccepts(schema, r)
       THEN /\ rows' = insertEventQuery(rows, [r EXCEPT !.updated_at = now])
            /\ last' = Outcome("InsertRow", r.id, None, None, "", None, None, 0)
       ELSE /\ last' = Outcome("InsertRow", r.id, None, None, ErrConstraint, None, None, 0)
            /\ UNCHANGED rows
    /\ UNCHANGED <<schema, now>>

RawCriteria ==
    {NewQueryCriteria, [NewQueryCriteria EXCEPT !.MinMagnitude = Some(60)]}

NextRaw ==
    \/ \E r \in RawRows : InsertRow(r)
    \/ \E id \in IDs \cup {""} : Delete(id)
    \/ \E id \in IDs \cup {""} : FindbyID(id)
    \/ \E c \in RawCriteria : FindAll(c)

SpecRaw == Init /\ [][NextRaw]_vars

\* the row breaks a rule of the domain or holds a time text in none of the
\* layouts parseTimeFlexible accepts
ViolatesInvariant(r) ==
    \/ r.latitude < -90 \/ r.latitude > 90
    \/ r.longitude < -180 \/ r.longitude > 180
    \/ r.magnitude_value < -10 \/ r.magnitude_value > 100
    \/ r.event_type = ""
    \/ r.id = ""
    \/ r.status = ""
    \/ parseTimeFlexible(r.event_time).err

\* C26: reconstruction errors fail the read: FindbyID of a stored row that
\* violates a domain invariant or holds a time in none of the accepted
\* formats returns an error and no event, and a FindAll whose result set
\* includes such a row returns an error and no events at all.
C26_BadRowFailsRead ==
    /\ (last.op = "FindbyID" /\ last.id \in DOMAIN rows /\ ViolatesInvariant(rows[last.id]))
          => (last.err # "" /\ last.out = None)
    /\ (last.op = "FindAll" /\ \E i \in last.sel : ViolatesInvariant(rows[i]))
          => (last.err # "" /\ last.list = None)

\* C27: the last-updated time of an event returned by FindbyID or FindAll is
\* the updated_at timestamp stored for its row, the one Save set when the
\* row was last written.
C27_UpdatedIsStored ==
    /\ (last.op = "FindbyID" /\ last.err = "") =>
          last.out[1].updated = rows[last.id].updated_at
    /\ (last.op = "FindAll" /\ last.err = "") =>
          \A k \in 1..Len(last.list[1]) :
              last.list[1][k].updated = rows[last.list[1][k].id].updated_at

\* ---------------------------------------------------------------------
\* A caller reading a result page by page
\* ---------------------------------------------------------------------

PagesCriteria ==
    {[NewQueryCriteria EXCEPT !.OrderBy = o, !.Limit = l] :
        o \in {"time", "magnitude", "depth"}, l \in {1, 2}}

\* FindAll at offsets 0, L, 2L, ... on an unchanged store, until the
\* matching rows are exhausted; each call runs its own ORDER BY
FindPages(c) ==
    /\ LET S == Selected(rows, c)
           K == (Cardinality(S) + c.Limit - 1) \div c.Limit
       IN \E fs \in [1..K -> OrderBy(rows, S, c)] :
            LET page == [k \in 1..K |->
                            ScanRows(rows, LimitOffset(fs[k], c.Limit, (k - 1) * c.Limit), now)]
                bad == {k \in 1..K : page[k].err # ""}
            IN last' = [Outcome("FindPages", "", None, Some(c),
                                IF bad = {} THEN ""
                                ELSE page[CHOOSE k \in bad : \A m \in bad : k <= m].err,
                                IF bad # {} THEN None
                                ELSE Some([k \in 1..K |->
                                             [j \in 1..Len(page[k].list[1]) |->
                                                 page[k].list[1][j].id]]),
                                None, 0)
                           EXCEPT !.sel = S]
    /\ UNCHANGED <<schema, rows, now>>

NextPages ==
    \/ \E e \in HeldEvents(now) : Save(e)
    \/ \E id \in IDs : Delete(id)
    \/ \E c \in PagesCriteria : FindPages(c)

SpecPages == Init /\ [][NextPages]_vars

\* how many times an id occurs in the pages
Occurrences(pages, i) ==
    Cardinality({kj \in {<<k, j>> : k \in 1..Len(pages), j \in 1..2} :
                    kj[2] <= Len(pages[kj[1]]) /\ pages[kj[1]][kj[2]] = i})

C29_SchemaAcceptsValidEvents ==
    (last.op = "Save" /\ schema = "migration") => last.err = ""

\* ---------------------------------------------------------------------
\* Count against FindAll
\* ---------------------------------------------------------------------

CountCriteria ==
    {[NewQueryCriteria EXCEPT !.MinMagnitude = lo, !.Statuses = st, !.Limit = l,
                              !.Offset = o, !.OrderBy = ob] :
        lo \in {None, Some(50)}, st \in {<<>>, <<"reviewed">>}, l \in {1, 100},
        o \in {0, 1}, ob \in {"time", "magnitude"}}

NextCount ==
    \/ \E e \in HeldEvents(now) : Save(e)
    \/ \E id \in IDs : Delete(id)
    \/ \E c \in CountCriteria : FindAll(c)
    \/ \E c \in CountCriteria : Count(c)

SpecCount == Init /\ [][NextCount]_vars

\* the stored rows that match the magnitude, type and status filters of a
\* criteria, whatever its limit, offset and sort
MatchFilters(rs, c) ==
    {i \in SatisfyFilters(rs, c) : c.Statuses # <<>> => rs[i].status \in Range(c.Statuses)}

\* C30: Count(criteria) is the number of stored rows that match the
\* criteria's filters, whatever its limit, offset and sort, and FindAll with
\* the same filters, offset 0 and a limit at least that large returns that
\* many events.
C30_CountAgrees ==
    Queried(CountCriteria) =>
        LET c == last.crit[1]
        IN /\ last.op = "Count" => last.n = Cardinality(MatchFilters(rows, c))
           /\ (last.op = "FindAll" /\ c.Offset = 0
                 /\ c.Limit >= Cardinality(Selected(rows, c))) =>
                 /\ last.err = ""
                 /\ Len(last.list[1]) = Cardinality(Selected(rows, c))

====
